---- MODULE Spec2Model ----
(***************************************************************************)
(* Query-rewrite classification and dispatch engine (src/src/rewriter.py). *)
(*                                                                         *)
(* A text is a sequence of lexemes.  The lexemes that matter to the code   *)
(* are kept apart: the code fence, the word json that may follow it, the   *)
(* JSON punctuation, whitespace, and the category markers the dispatcher   *)
(* looks for.  The Chinese markers of the source are written in ASCII:     *)
(*   "ContextDependent"   the marker tested at rewriter.py:223             *)
(*   "Comparative"        the marker tested at rewriter.py:225             *)
(*   "AmbiguousReference" the marker tested at rewriter.py:227             *)
(*   "MultiIntent"        the marker tested at rewriter.py:229             *)
(*   "Rhetorical"         the marker tested at rewriter.py:231             *)
(*   "Plain", "Type"      the two halves of the default label (line 198)   *)
(***************************************************************************)
EXTENDS Integers, Sequences, FiniteSets, TLC

\* ------------------------------------------------------------------ bounds
MaxLabelLen == 2      \* lexemes in a query_type label the model may answer
MaxItems == 2         \* elements in a JSON array the model may answer

\* ----------------------------------------------------------------- lexemes
WS == " "
FENCE == "~~~"      \* the three-backquote code fence
JSONWORD == "json"
QUOTE == "'"         \* the double quote that delimits a JSON string
NumberTokens == {"5", "0.8", "0.5"}

CONTEXT_MARK == "ContextDependent"
COMPARE_MARK == "Comparative"
AMBIG_MARK == "AmbiguousReference"
MULTI_MARK == "MultiIntent"
RHET_MARK == "Rhetorical"
Markers == {CONTEXT_MARK, COMPARE_MARK, AMBIG_MARK, MULTI_MARK, RHET_MARK}
PlainLabel == <<"Plain", "Type">>

\* ------------------------------------------------------------------ values
\* A Python value as json.loads produces it.  Every value has the same three
\* fields: t the type, s the lexemes of a str or number (or the key of a
\* dict entry), items the elements of a list or the entries of a dict.
VStr(s) == [t |-> "str", s |-> s, items |-> <<>>]
VNum(tok) == [t |-> "num", s |-> <<tok>>, items |-> <<>>]
VNull == [t |-> "null", s |-> <<>>, items |-> <<>>]
VList(items) == [t |-> "list", s |-> <<>>, items |-> items]
VDict(entries) == [t |-> "dict", s |-> <<>>, items |-> entries]
VEntry(k, v) == [t |-> "entry", s |-> k, items |-> <<v>>]
Unset == [t |-> "unset", s |-> <<>>, items |-> <<>>]

\* dict[k] = v: a repeated key keeps its place and takes the last value
RECURSIVE DictPut(_, _, _)
DictPut(entries, k, v) ==
    IF entries = <<>> THEN <<VEntry(k, v)>>
    ELSE IF Head(entries).s = k THEN <<VEntry(k, v)>> \o Tail(entries)
    ELSE <<Head(entries)>> \o DictPut(Tail(entries), k, v)

HasKey(d, k) == \E i \in 1..Len(d.items) : d.items[i].s = k

\* dict.get(k, default)
DictGet(d, k, default) ==
    IF HasKey(d, k)
    THEN (d.items[CHOOSE i \in 1..Len(d.items) : d.items[i].s = k]).items[1]
    ELSE default

\* ---------------------------------------------------------- str operations
\* str.strip(): drop leading and trailing whitespace
RECURSIVE LStrip(_)
LStrip(t) == IF t # <<>> /\ Head(t) = WS THEN LStrip(Tail(t)) ELSE t

RECURSIVE RStrip(_)
RStrip(t) ==
    IF t # <<>> /\ t[Len(t)] = WS THEN RStrip(SubSeq(t, 1, Len(t) - 1)) ELSE t

Strip(t) == RStrip(LStrip(t))

IsPrefix(p, t) == Len(p) <= Len(t) /\ SubSeq(t, 1, Len(p)) = p

\* str.replace(old, ""): every occurrence, left to right, anywhere in the text
RECURSIVE Remove(_, _)
Remove(t, old) ==
    IF t = <<>> THEN <<>>
    ELSE IF IsPrefix(old, t) THEN Remove(SubSeq(t, Len(old) + 1, Len(t)), old)
    ELSE <<Head(t)>> \o Remove(Tail(t), old)

\* response.strip().replace(FENCE + "json", "").replace(FENCE, "").strip()
CleanResponse(response) ==
    Strip(Remove(Remove(Strip(response), <<FENCE, JSONWORD>>), <<FENCE>>))

\* -------------------------------------------------------------- json.loads
ParseFail == [ok |-> FALSE, v |-> VNull, i |-> 0]
ParseOk(v, i) == [ok |-> TRUE, v |-> v, i |-> i]

RECURSIVE SkipWs(_, _)
SkipWs(t, i) == IF i <= Len(t) /\ t[i] = WS THEN SkipWs(t, i + 1) ELSE i

\* the index of the quote that closes a string opened before i, 0 if none
RECURSIVE ClosingQuote(_, _)
ClosingQuote(t, i) ==
    IF i > Len(t) THEN 0
    ELSE IF t[i] = QUOTE THEN i
    ELSE ClosingQuote(t, i + 1)

RECURSIVE ParseValue(_, _)
RECURSIVE ParseElements(_, _, _)
RECURSIVE ParseMembers(_, _, _)

ParseValue(t, i) ==
    IF i > Len(t) THEN ParseFail
    ELSE IF t[i] = QUOTE THEN
        LET j == ClosingQuote(t, i + 1)
        IN  IF j = 0 THEN ParseFail ELSE ParseOk(VStr(SubSeq(t, i + 1, j - 1)), j + 1)
    ELSE IF t[i] \in NumberTokens THEN ParseOk(VNum(t[i]), i + 1)
    ELSE IF t[i] = "null" THEN ParseOk(VNull, i + 1)
    ELSE IF t[i] = "[" THEN
        LET j == SkipWs(t, i + 1)
        IN  IF j <= Len(t) /\ t[j] = "]" THEN ParseOk(VList(<<>>), j + 1)
            ELSE ParseElements(t, j, <<>>)
    ELSE IF t[i] = "{" THEN
        LET j == SkipWs(t, i + 1)
        IN  IF j <= Len(t) /\ t[j] = "}" THEN ParseOk(VDict(<<>>), j + 1)
            ELSE ParseMembers(t, j, <<>>)
    ELSE ParseFail

ParseElements(t, i, acc) ==
    LET r == ParseValue(t, i)
    IN  IF ~r.ok THEN ParseFail
        ELSE LET j == SkipWs(t, r.i)
             IN  IF j > Len(t) THEN ParseFail
                 ELSE IF t[j] = "]" THEN ParseOk(VList(Append(acc, r.v)), j + 1)
                 ELSE IF t[j] = ","
                      THEN ParseElements(t, SkipWs(t, j + 1), Append(acc, r.v))
                 ELSE ParseFail

ParseMembers(t, i, acc) ==
    IF i > Len(t) \/ t[i] # QUOTE THEN ParseFail
    ELSE LET q == ClosingQuote(t, i + 1)
         IN  IF q = 0 THEN ParseFail
             ELSE LET key == SubSeq(t, i + 1, q - 1)
                      c == SkipWs(t, q + 1)
                  IN  IF c > Len(t) \/ t[c] # ":" THEN ParseFail
                      ELSE LET r == ParseValue(t, SkipWs(t, c + 1))
                           IN  IF ~r.ok THEN ParseFail
                               ELSE LET j == SkipWs(t, r.i)
                                        acc2 == DictPut(acc, key, r.v)
                                    IN  IF j > Len(t) THEN ParseFail
                                        ELSE IF t[j] = "}" THEN ParseOk(VDict(acc2), j + 1)
                                        ELSE IF t[j] = ","
                                             THEN ParseMembers(t, SkipWs(t, j + 1), acc2)
                                        ELSE ParseFail

\* json.loads(text): ok = FALSE stands for json.JSONDecodeError
JsonLoads(text) ==
    LET r == ParseValue(text, SkipWs(text, 1))
    IN  IF r.ok /\ SkipWs(text, r.i) > Len(text) THEN r ELSE ParseFail

\* ------------------------------------------------- what the model may answer
SeqsUpTo(S, n) == UNION {[1..k -> S] : k \in 0..n}

RECURSIVE Join(_)
Join(texts) ==
    IF texts = <<>> THEN <<>>
    ELSE IF Len(texts) = 1 THEN texts[1]
    ELSE texts[1] \o <<",", WS>> \o Join(Tail(texts))

JStr(s) == <<QUOTE>> \o s \o <<QUOTE>>
JArray(texts) == <<"[">> \o Join(texts) \o <<"]">>
JMember(k, text) == JStr(<<k>>) \o <<":", WS>> \o text
JObject(texts) == <<"{">> \o Join(texts) \o <<"}">>
JDetection(qt) == JObject(<<JMember("query_type", qt), JMember("confidence", <<"0.8">>)>>)

LabelLexemes == Markers \cup {"Type"}
Labels == SeqsUpTo(LabelLexemes, MaxLabelLen) \cup {PlainLabel}

\* answers to the detection prompt: the requested object with every label,
\* objects with a query_type of another type or with none, JSON that is not
\* an object, and text that is not JSON
DetectionBodies ==
    {JDetection(JStr(l)) : l \in Labels}
    \cup { JDetection(<<"5">>),
           JDetection(<<"null">>),
           JDetection(JArray(<<JStr(<<COMPARE_MARK>>)>>)),
           JDetection(JObject(<<JMember(MULTI_MARK, <<"5">>)>>)),
           JObject(<<JMember("confidence", <<"0.8">>)>>),
           JObject(<<JMember("query_type", JStr(<<RHET_MARK>>)),
                     JMember("query_type", JStr(PlainLabel))>>),
           JArray(<<>>),
           JArray(<<JStr(<<MULTI_MARK>>)>>),
           <<"5">>,
           JStr(<<COMPARE_MARK>>),
           <<"null">>,
           <<>>,
           <<WS>>,
           <<COMPARE_MARK, "Type">>,
           <<"{", QUOTE, "query_type", QUOTE, ":">>,
           <<FENCE>> \o JDetection(JStr(<<AMBIG_MARK>>)) \o <<FENCE>>,
           <<WS>> \o JDetection(JStr(<<MULTI_MARK, "Type">>)) }

ItemStrings == {<<"a">>, <<"b", FENCE, "c">>}

\* answers to a strategy prompt: a rewritten question, arrays of strings,
\* JSON that is not an array of strings, and text that is not JSON
StrategyBodies ==
    {JArray([i \in DOMAIN items |-> JStr(items[i])]) :
        items \in SeqsUpTo(ItemStrings, MaxItems)}
    \cup { <<"rewritten", WS, "question">>,
           <<"a", FENCE, "b">>,
           JArray(<<<<"5">>>>),
           JArray(<<JStr(<<"a">>), <<"null">>>>),
           JObject(<<JMember("a", JStr(<<"b">>))>>),
           <<"5">>,
           JStr(<<"a">>),
           <<"null">>,
           <<>>,
           <<WS>>,
           <<"[", QUOTE, "a", QUOTE>>,
           <<"[", QUOTE, "a", QUOTE, ",", "]">>,
           <<FENCE>> \o JArray(<<JStr(<<"a">>)>>) \o <<FENCE>>,
           <<WS, "rewritten", WS>> }

\* the model may put its answer in a code block or pad it with whitespace
Wrappings(body) ==
    { body,
      <<WS, FENCE, JSONWORD, WS>> \o body \o <<WS, FENCE, WS>> }

\* what provider.text_chat does: it raises, returns None, returns a response
\* whose completion_text is None or "", or returns a response with a text
Outcome(kind, text) == [kind |-> kind, text |-> text]
NoOutcome == Outcome("unset", <<>>)
Failures == {Outcome("raises", <<>>), Outcome("no_response", <<>>), Outcome("no_text", <<>>)}
OutcomesOf(bodies) ==
    Failures \cup {Outcome("text", t) : t \in UNION {Wrappings(b) : b \in bodies} \ {<<>>}}
DetectionOutcomes == OutcomesOf(DetectionBodies)
StrategyOutcomes == OutcomesOf(StrategyBodies)

Queries == {<<"q1">>, <<"q2", WS, "q3">>}
Histories == {<<>>, <<"h1">>}
Calls == {1, 2}

\* ------------------------------------------------------------ the functions
\* _get_completion without the .strip() of line 22
GetCompletionUnstripped(o) ==
    IF o.kind # "text" THEN <<>> ELSE o.text

\* QueryRewriterBase._get_completion, after provider.text_chat has answered
GetCompletion(o) ==
    IF o.kind = "raises" THEN <<>>
    ELSE IF o.kind = "no_response" THEN <<>>
    ELSE IF o.kind = "no_text" \/ o.text = <<>> THEN <<>>
    ELSE Strip(o.text)

\* a fallback of detect that names the first category of the rubric
DefaultDetectionFirstCategory ==
    VDict(<<VEntry(<<"query_type">>, VStr(<<CONTEXT_MARK, "Type">>)),
            VEntry(<<"confidence">>, VNum("0.5"))>>)

\* the dict detect returns when the completion is not JSON
DefaultDetection ==
    VDict(<<VEntry(<<"query_type">>, VStr(PlainLabel)),
            VEntry(<<"confidence">>, VNum("0.5"))>>)

\* QueryTypeDetector.detect, from the completion on
DetectResult(response) ==
    LET r == JsonLoads(CleanResponse(response))
    IN  IF r.ok THEN r.v ELSE DefaultDetection

\* MultiIntentRewriter.rewrite, from the completion on
MultiIntentResult(response) ==
    LET r == JsonLoads(CleanResponse(response))
    IN  IF r.ok THEN r.v ELSE VList(<<VStr(response)>>)

\* marker in query_type: a substring of a str, an element of a list, a key
\* of a dict; any other type raises TypeError
SupportsIn(qt) == qt.t \in {"str", "list", "dict"}
Contains(qt, marker) ==
    CASE qt.t = "str" -> \E i \in 1..Len(qt.s) : qt.s[i] = marker
      [] qt.t = "list" -> \E i \in 1..Len(qt.items) : qt.items[i] = VStr(<<marker>>)
      [] qt.t = "dict" -> HasKey(qt, <<marker>>)
      [] OTHER -> FALSE

\* the if/elif chain with the multi-intent test moved before the
\* ambiguous-reference test
SelectStrategyMultiFirst(qt) ==
    IF Contains(qt, CONTEXT_MARK) THEN "context_rewriter"
    ELSE IF Contains(qt, COMPARE_MARK) THEN "comparative_rewriter"
    ELSE IF Contains(qt, MULTI_MARK) THEN "multi_intent_rewriter"
    ELSE IF Contains(qt, AMBIG_MARK) THEN "ambiguous_rewriter"
    ELSE IF Contains(qt, RHET_MARK) THEN "rhetorical_rewriter"
    ELSE "default"

\* the if/elif chain with its last elif turned into the else
SelectStrategyNoDefault(qt) ==
    IF Contains(qt, CONTEXT_MARK) THEN "context_rewriter"
    ELSE IF Contains(qt, COMPARE_MARK) THEN "comparative_rewriter"
    ELSE IF Contains(qt, AMBIG_MARK) THEN "ambiguous_rewriter"
    ELSE IF Contains(qt, MULTI_MARK) THEN "multi_intent_rewriter"
    ELSE "rhetorical_rewriter"

\* the if/elif chain of QueryRewriteManager.rewrite_query
SelectStrategy(qt) ==
    IF Contains(qt, CONTEXT_MARK) THEN "context_rewriter"
    ELSE IF Contains(qt, COMPARE_MARK) THEN "comparative_rewriter"
    ELSE IF Contains(qt, AMBIG_MARK) THEN "ambiguous_rewriter"
    ELSE IF Contains(qt, MULTI_MARK) THEN "multi_intent_rewriter"
    ELSE IF Contains(qt, RHET_MARK) THEN "rhetorical_rewriter"
    ELSE "default"

\* the value a strategy returns for the completion it received
StrategyResult(strat, response) ==
    IF strat = "multi_intent_rewriter" THEN MultiIntentResult(response)
    ELSE VStr(response)

\* ---------------------------------------------------------------- the state
VARIABLES
    pc,               \* where each call of rewrite_query stands
    query,            \* its argument query
    history,          \* its argument conversation_history
    requests,         \* the prompts it has sent to provider.text_chat, each
                      \* with the kind of answer text_chat gave
    outcome,          \* what text_chat did, inside _get_completion
    response,         \* what _get_completion returned
    detection_result, \* what detect returned
    query_type,       \* detection_result.get('query_type', default)
    strategy,         \* the rewriter the if/elif chain chose
    rewritten_query,  \* the value rewrite_query returns
    raised            \* the exception rewrite_query raises

vars == <<pc, query, history, requests, outcome, response, detection_result,
          query_type, strategy, rewritten_query, raised>>

Request(to, q, h) == [to |-> to, query |-> q, history |-> h, answer |-> "pending"]

Init ==
    /\ pc = [c \in Calls |-> "idle"]
    /\ query = [c \in Calls |-> <<>>]
    /\ history = [c \in Calls |-> <<>>]
    /\ requests = [c \in Calls |-> <<>>]
    /\ outcome = [c \in Calls |-> NoOutcome]
    /\ response = [c \in Calls |-> <<>>]
    /\ detection_result = [c \in Calls |-> Unset]
    /\ query_type = [c \in Calls |-> Unset]
    /\ strategy = [c \in Calls |-> "none"]
    /\ rewritten_query = [c \in Calls |-> Unset]
    /\ raised = [c \in Calls |-> "none"]

\* rewrite_query(q, h) is called: detect builds its prompt and _get_completion
\* awaits provider.text_chat
RewriteQuery(c, q, h) ==
    /\ pc[c] = "idle"
    /\ pc' = [pc EXCEPT ![c] = "detect_wait"]
    /\ query' = [query EXCEPT ![c] = q]
    /\ history' = [history EXCEPT ![c] = h]
    /\ requests' = [requests EXCEPT ![c] = <<Request("type_detector", q, h)>>]
    /\ UNCHANGED <<outcome, response, detection_result, query_type, strategy,
                   rewritten_query, raised>>

\* _get_completion with a retry: a failed text_chat is asked again
CompleteRetrying(c, o) ==
    /\ \/ pc[c] = "detect_wait" /\ o \in DetectionOutcomes
       \/ pc[c] = "strategy_wait" /\ o \in StrategyOutcomes
    /\ IF o.kind = "text"
       THEN /\ pc' = [pc EXCEPT ![c] =
                    IF pc[c] = "detect_wait" THEN "detect_completed"
                    ELSE "strategy_completed"]
            /\ outcome' = [outcome EXCEPT ![c] = o]
            /\ response' = [response EXCEPT ![c] = Strip(o.text)]
            /\ requests' = [requests EXCEPT ![c][Len(requests[c])].answer = o.kind]
       ELSE /\ requests' = [requests EXCEPT ![c] =
                    Append([@ EXCEPT ![Len(@)].answer = o.kind],
                           [@[Len(@)] EXCEPT !.answer = "pending"])]
            /\ UNCHANGED <<pc, outcome, response>>
    /\ UNCHANGED <<query, history, detection_result, query_type,
                   strategy, rewritten_query, raised>>

\* text_chat answers the pending prompt and _get_completion returns
Complete(c, o) ==
    /\ \/ pc[c] = "detect_wait" /\ o \in DetectionOutcomes
       \/ pc[c] = "strategy_wait" /\ o \in StrategyOutcomes
    /\ pc' = [pc EXCEPT ![c] =
                IF pc[c] = "detect_wait" THEN "detect_completed" ELSE "strategy_completed"]
    /\ outcome' = [outcome EXCEPT ![c] = o]
    /\ response' = [response EXCEPT ![c] = GetCompletion(o)]
    /\ requests' = [requests EXCEPT ![c][Len(requests[c])].answer = o.kind]
    /\ UNCHANGED <<query, history, detection_result, query_type,
                   strategy, rewritten_query, raised>>

\* detect parses the completion and returns
DetectReturn(c) ==
    /\ pc[c] = "detect_completed"
    /\ pc' = [pc EXCEPT ![c] = "detected"]
    /\ detection_result' = [detection_result EXCEPT ![c] = DetectResult(response[c])]
    /\ outcome' = [outcome EXCEPT ![c] = NoOutcome]
    /\ UNCHANGED <<query, history, requests, response, query_type, strategy,
                   rewritten_query, raised>>

\* rewrite_query reads the label and walks the if/elif chain: it raises,
\* returns the query, or has the chosen rewriter await text_chat
Dispatch(c) ==
    /\ pc[c] = "detected"
    /\ response' = [response EXCEPT ![c] = <<>>]
    /\ LET dr == detection_result[c]
           qt == DictGet(dr, <<"query_type">>, VStr(PlainLabel))
       IN  IF dr.t # "dict" THEN
               /\ pc' = [pc EXCEPT ![c] = "raised"]
               /\ raised' = [raised EXCEPT ![c] = "AttributeError"]
               /\ UNCHANGED <<query_type, strategy, requests, rewritten_query>>
           ELSE IF ~SupportsIn(qt) THEN
               /\ pc' = [pc EXCEPT ![c] = "raised"]
               /\ raised' = [raised EXCEPT ![c] = "TypeError"]
               /\ query_type' = [query_type EXCEPT ![c] = qt]
               /\ UNCHANGED <<strategy, requests, rewritten_query>>
           ELSE IF SelectStrategy(qt) = "default" THEN
               /\ pc' = [pc EXCEPT ![c] = "done"]
               /\ query_type' = [query_type EXCEPT ![c] = qt]
               /\ strategy' = [strategy EXCEPT ![c] = "default"]
               /\ rewritten_query' = [rewritten_query EXCEPT ![c] = VStr(query[c])]
               /\ UNCHANGED <<requests, raised>>
           ELSE
               /\ pc' = [pc EXCEPT ![c] = "strategy_wait"]
               /\ query_type' = [query_type EXCEPT ![c] = qt]
               /\ strategy' = [strategy EXCEPT ![c] = SelectStrategy(qt)]
               /\ requests' = [requests EXCEPT ![c] =
                     Append(@, Request(SelectStrategy(qt), query[c],
                        IF SelectStrategy(qt) = "multi_intent_rewriter"
                        THEN <<>> ELSE history[c]))]
               /\ UNCHANGED <<rewritten_query, raised>>
    /\ UNCHANGED <<query, history, outcome, detection_result>>

\* the rewriter returns and rewrite_query returns its value
StrategyReturn(c) ==
    /\ pc[c] = "strategy_completed"
    /\ pc' = [pc EXCEPT ![c] = "done"]
    /\ rewritten_query' = [rewritten_query EXCEPT ![c] =
                              StrategyResult(strategy[c], response[c])]
    /\ outcome' = [outcome EXCEPT ![c] = NoOutcome]
    /\ UNCHANGED <<query, history, requests, response, detection_result,
                   query_type, strategy, raised>>

\* the caller has the result (or the exception) and the call's frame is gone
Finish(c) ==
    /\ pc[c] \in {"done", "raised"}
    /\ pc' = [pc EXCEPT ![c] = "idle"]
    /\ query' = [query EXCEPT ![c] = <<>>]
    /\ history' = [history EXCEPT ![c] = <<>>]
    /\ requests' = [requests EXCEPT ![c] = <<>>]
    /\ outcome' = [outcome EXCEPT ![c] = NoOutcome]
    /\ response' = [response EXCEPT ![c] = <<>>]
    /\ detection_result' = [detection_result EXCEPT ![c] = Unset]
    /\ query_type' = [query_type EXCEPT ![c] = Unset]
    /\ strategy' = [strategy EXCEPT ![c] = "none"]
    /\ rewritten_query' = [rewritten_query EXCEPT ![c] = Unset]
    /\ raised' = [raised EXCEPT ![c] = "none"]

\* a caller that awaits each call before it makes the next
Next ==
    \/ \E c \in Calls, q \in Queries, h \in Histories :
          (\A d \in Calls : pc[d] = "idle") /\ RewriteQuery(c, q, h)
    \/ \E c \in Calls, o \in DetectionOutcomes \cup StrategyOutcomes : Complete(c, o)
    \/ \E c \in Calls : DetectReturn(c)
    \/ \E c \in Calls : Dispatch(c)
    \/ \E c \in Calls : StrategyReturn(c)
    \/ \E c \in Calls : Finish(c)

Spec == Init /\ [][Next]_vars

\* the answers text_chat gives when calls run concurrently: a failure, the
\* requested object for a string strategy, for MultiIntent and for Plain, JSON
\* that is not an object; a rewritten question and an array of strings
ConcOutcomes ==
    { Outcome("raises", <<>>),
      Outcome("text", JDetection(JStr(<<COMPARE_MARK>>))),
      Outcome("text", JDetection(JStr(<<MULTI_MARK>>))),
      Outcome("text", JDetection(JStr(PlainLabel))),
      Outcome("text", JArray(<<>>)),
      Outcome("text", <<"rewritten", WS, "question">>),
      Outcome("text", JArray(<<JStr(<<"a">>)>>)) }

\* callers that call rewrite_query while other calls are suspended at their
\* await of text_chat: the steps of the calls interleave in any order
NextConc ==
    \/ \E c \in Calls, q \in Queries, h \in Histories : RewriteQuery(c, q, h)
    \/ \E c \in Calls, o \in ConcOutcomes : Complete(c, o)
    \/ \E c \in Calls : DetectReturn(c)
    \/ \E c \in Calls : Dispatch(c)
    \/ \E c \in Calls : StrategyReturn(c)
    \/ \E c \in Calls : Finish(c)

SpecConc == Init /\ [][NextConc]_vars

\* ---------------------------------------------------------------- claims
FailureKinds == {"raises", "no_response", "no_text"}
StringStrategies == {"context_rewriter", "comparative_rewriter",
                     "ambiguous_rewriter", "rhetorical_rewriter"}
Dispatched(c) == pc[c] \in {"strategy_wait", "strategy_completed", "done"}
HasLexeme(s, x) == \E i \in 1..Len(s) : s[i] = x
IsStrList(v) == v.t = "list" /\ \A i \in 1..Len(v.items) : v.items[i].t = "str"

\* core, with whitespace and nothing else before and after it, is text
Padded(text, core) ==
    \E i \in 0..Len(text) :
        /\ i + Len(core) <= Len(text)
        /\ SubSeq(text, i + 1, i + Len(core)) = core
        /\ \A k \in 1..Len(text) : (k <= i \/ k > i + Len(core)) => text[k] = WS
NoOuterWs(core) == core = <<>> \/ (core[1] # WS /\ core[Len(core)] # WS)

\* a text without the code fence that opens it and the one that closes it
Unfence(text) ==
    LET a == Strip(text)
        b == IF IsPrefix(<<FENCE, JSONWORD>>, a) THEN SubSeq(a, 3, Len(a))
             ELSE IF IsPrefix(<<FENCE>>, a) THEN SubSeq(a, 2, Len(a))
             ELSE a
        c == IF b # <<>> /\ b[Len(b)] = FENCE THEN SubSeq(b, 1, Len(b) - 1) ELSE b
    IN  Strip(c)

\* C1: rewrite_query never raises an error to its caller, whatever the model
\* answers to the detection call and to the strategy call.
C1_NeverRaises == \A c \in Calls : pc[c] # "raised" /\ raised[c] = "none"

\* C2: when the completion, cleaned of fence markup, is not JSON or is JSON
\* that is not an object, detect returns the default {Plain, 0.5}.
C2_DetectDefaultOnMismatch ==
    \A c \in Calls :
        pc[c] = "detected" =>
            LET r == JsonLoads(CleanResponse(response[c]))
            IN  (~r.ok \/ r.v.t # "dict") => detection_result[c] = DefaultDetection

\* C3: when the detection result has no query_type field, or its label is a
\* string with none of the five markers, rewrite_query returns exactly the
\* query and has sent the detection request only.
C3_PlainReturnsQuery ==
    \A c \in Calls :
        (/\ pc[c] \in {"strategy_wait", "strategy_completed", "done", "raised"}
         /\ detection_result[c].t = "dict"
         /\ LET dr == detection_result[c]
            IN  \/ ~HasKey(dr, <<"query_type">>)
                \/ LET qt == DictGet(dr, <<"query_type">>, Unset)
                   IN  qt.t = "str" /\ \A m \in Markers : ~HasLexeme(qt.s, m))
        => /\ pc[c] = "done"
           /\ strategy[c] = "default"
           /\ rewritten_query[c] = VStr(query[c])
           /\ Len(requests[c]) = 1

C3_Witness ==
    \E c \in Calls :
        /\ pc[c] = "done"
        /\ requests[c][1].answer = "text"
        /\ detection_result[c].t = "dict"
        /\ ~HasKey(detection_result[c], <<"query_type">>)
        /\ rewritten_query[c] = VStr(query[c])

\* C4: _get_completion returns the empty string and raises nothing when
\* text_chat raises, returns no response, or returns no or an empty text;
\* otherwise it returns the text without its surrounding whitespace.
C4_GatewayFailsSoft ==
    \A c \in Calls :
        pc[c] \in {"detect_completed", "strategy_completed"} =>
            /\ raised[c] = "none"
            /\ IF outcome[c].kind \in FailureKinds \/ outcome[c].text = <<>>
               THEN response[c] = <<>>
               ELSE /\ outcome[c].kind = "text"
                    /\ Padded(outcome[c].text, response[c])
                    /\ NoOuterWs(response[c])

C4_Witness ==
    \E c \in Calls :
        /\ pc[c] = "strategy_completed"
        /\ outcome[c].kind = "raises"
        /\ response[c] = <<>>

\* C5: when the strategy call fails after one of the four string-producing
\* categories was detected, rewrite_query returns the original query.
C5_FailedStrategyReturnsQuery ==
    \A c \in Calls :
        (/\ pc[c] = "done"
         /\ strategy[c] \in StringStrategies
         /\ requests[c][2].answer \in FailureKinds)
        => rewritten_query[c] = VStr(query[c])

\* C6: if text_chat fails on every call it receives, no strategy is invoked
\* and rewrite_query returns the query unchanged.
C6_AllFailReturnsQuery ==
    \A c \in Calls :
        (requests[c] # <<>> /\ requests[c][1].answer \in FailureKinds)
        => /\ pc[c] \in {"detect_completed", "detected", "done"}
           /\ Len(requests[c]) = 1
           /\ pc[c] = "done" =>
                 strategy[c] = "default" /\ rewritten_query[c] = VStr(query[c])

C6_Witness ==
    \E c \in Calls :
        /\ pc[c] = "done"
        /\ requests[c][1].answer = "raises"
        /\ strategy[c] = "default"
        /\ rewritten_query[c] = VStr(query[c])

\* C7: a label with both the multi-intent marker and the ambiguous-reference
\* marker is dispatched to the MultiIntent strategy.
C7_MultiIntentBeforeAmbiguous ==
    \A c \in Calls :
        (/\ Dispatched(c)
         /\ query_type[c].t = "str"
         /\ HasLexeme(query_type[c].s, MULTI_MARK)
         /\ HasLexeme(query_type[c].s, AMBIG_MARK))
        => strategy[c] = "multi_intent_rewriter"

\* C8: when MultiIntent was detected and the completion, without its
\* surrounding code fence, is a JSON array of strings, rewrite_query returns
\* that array, the same elements in the same order.
C8_MultiIntentReturnsArray ==
    \A c \in Calls :
        (pc[c] = "done" /\ strategy[c] = "multi_intent_rewriter") =>
            LET r == JsonLoads(Unfence(response[c]))
            IN  (r.ok /\ IsStrList(r.v)) => rewritten_query[c] = r.v

\* C9: when the MultiIntent rewriter's completion is not JSON, or is JSON that
\* is not an array, the outcome is the one-element sequence of the raw
\* completion text.
C9_MultiIntentFallback ==
    \A c \in Calls :
        (pc[c] = "done" /\ strategy[c] = "multi_intent_rewriter") =>
            LET r == JsonLoads(CleanResponse(response[c]))
            IN  (~r.ok \/ r.v.t # "list") =>
                    rewritten_query[c] = VList(<<VStr(response[c])>>)

\* C10: a list is returned only on the MultiIntent path, the MultiIntent path
\* always returns a sequence of strings, every other path a single string.
C10_ResultShape ==
    \A c \in Calls :
        pc[c] = "done" =>
            /\ rewritten_query[c].t = "list" => strategy[c] = "multi_intent_rewriter"
            /\ strategy[c] = "multi_intent_rewriter" => IsStrList(rewritten_query[c])
            /\ strategy[c] # "multi_intent_rewriter" => rewritten_query[c].t = "str"

\* the categories in the order the claim gives, each with its strategy
DispatchOrder ==
    << [mark |-> CONTEXT_MARK, to |-> "context_rewriter"],
       [mark |-> COMPARE_MARK, to |-> "comparative_rewriter"],
       [mark |-> AMBIG_MARK, to |-> "ambiguous_rewriter"],
       [mark |-> MULTI_MARK, to |-> "multi_intent_rewriter"],
       [mark |-> RHET_MARK, to |-> "rhetorical_rewriter"] >>

\* the strategy of the first category whose marker occurs in the label
FirstMatch(label) ==
    LET hits == {i \in DOMAIN DispatchOrder : HasLexeme(label, DispatchOrder[i].mark)}
    IN  IF hits = {} THEN "default"
        ELSE DispatchOrder[CHOOSE i \in hits : \A j \in hits : i <= j].to

Frame(c) ==
    <<pc[c], query[c], history[c], requests[c], outcome[c], response[c],
      detection_result[c], query_type[c], strategy[c], rewritten_query[c],
      raised[c]>>

\* what a call was given: its arguments and the answers to its own requests
Given(c) ==
    <<query[c], history[c], requests[c], detection_result[c], response[c]>>

\* at most two requests, the detection request first, the strategy request
\* only once detection was answered, none on the default path, none repeated
C12_Requests ==
    \A c \in Calls :
        /\ Len(requests[c]) <= 2
        /\ pc[c] # "idle" => /\ Len(requests[c]) >= 1
                             /\ requests[c][1].to = "type_detector"
                             /\ requests[c][1].query = query[c]
                             /\ requests[c][1].history = history[c]
        /\ Len(requests[c]) = 2 =>
              /\ requests[c][1].answer # "pending"
              /\ requests[c][2].to # "type_detector"
              /\ requests[c][2].to = strategy[c]
              /\ requests[c][2].query = query[c]
        /\ strategy[c] = "default" => Len(requests[c]) = 1
        /\ \A i \in DOMAIN requests[c] :
              requests[c][i].answer = "pending" <=>
                 (i = Len(requests[c]) /\ pc[c] \in {"detect_wait", "strategy_wait"})

\* two finished calls that were given the same have the same outcome
C12_OwnInputsOnly ==
    \A c, d \in Calls :
        (/\ pc[c] \in {"done", "raised"}
         /\ pc[d] \in {"done", "raised"}
         /\ Given(c) = Given(d))
        => /\ pc[c] = pc[d]
           /\ raised[c] = raised[d]
           /\ rewritten_query[c] = rewritten_query[d]

\* a step of one call changes nothing another call holds
C12_OneCallPerStep ==
    \A c, d \in Calls : (c # d /\ Frame(c)' # Frame(c)) => Frame(d)' = Frame(d)

\* C12: under any interleaving of concurrent calls each call sends at most two
\* requests and repeats none, the detection request first and the strategy
\* request only after detection was answered, none on the default path; its
\* result depends only on its own query, history and answers.
C12_ConcurrentCalls ==
    /\ [](C12_Requests /\ C12_OwnInputsOnly)
    /\ [][C12_OneCallPerStep]_vars

\* one call has returned a strategy's result while another, started before
\* it returned, still awaits the answer to its strategy request
C12_Witness ==
    \E c, d \in Calls :
        /\ c # d
        /\ pc[c] = "done"
        /\ Len(requests[c]) = 2
        /\ requests[c][2].answer = "text"
        /\ pc[d] = "strategy_wait"
        /\ requests[d][1].answer = "text"
        /\ query[c] # query[d]

====
